---- MODULE Spec2Model ----
(***************************************************************************)
(* nba_stats/players.py: the Statistics object.                            *)
(*                                                                         *)
(* Strings are sequences of one-character strings, so that the text        *)
(* operations of the source (Series.str.replace, re.sub) act on            *)
(* characters.  A table is a sequence of rows.  Of the 8 columns of the    *)
(* player dataset and the 53 columns of the season statistics only the     *)
(* row counter (idx) and the player name are kept: no statement about the  *)
(* object reads another column.  The index of the inductee table is the    *)
(* row position (the RangeIndex of the scraped frame, the row counter of   *)
(* the published CSV).                                                     *)
(***************************************************************************)
EXTENDS Integers, Sequences, FiniteSets, TLC

(***************************************************************************)
(* Bounds of the model.                                                    *)
(***************************************************************************)
\* longest inductee table a source delivers
MaxFame == 2
\* most data lines in each of the two local files
MaxRows == 2
\* longest text typed into the sanitizer
MaxLen == 5

VARIABLES
    pc,             \* position in Statistics.__init__ / the object's life
    log,            \* the steps __init__ has executed, in order
    extracted,      \* number of pairs re.findall matched in the scraped page
    resolved,       \* the inductee table as the resolver produced it
    fame,           \* self.fame
    players_file,   \* content of data/Players.csv
    season_file,    \* content of data/Seasons_Stats.csv
    players,        \* self.players
    stats,          \* self.stats
    players_fame,   \* self.players_fame
    stats_fame,     \* self.stats_fame
    returned,       \* missing_hall_of_fame has returned at least once
    result,         \* the table missing_hall_of_fame returned last
    fstage,         \* position of the sanitizer run
    text,           \* the sanitizer's input text
    filtered,       \* blank_filter(text)
    twice           \* blank_filter(blank_filter(text))

vars == <<pc, log, extracted, resolved, fame, players_file, season_file,
          players, stats, players_fame, stats_fame, returned, result,
          fstage, text, filtered, twice>>

objvars == <<pc, log, extracted, resolved, fame, players_file, season_file,
             players, stats, players_fame, stats_fame, returned, result>>

filtervars == <<fstage, text, filtered, twice>>

(***************************************************************************)
(* Values.                                                                 *)
(***************************************************************************)
\* numpy.nan: a missing cell.  No string is this value.
NaN == <<"NaN">>

NL == "\n"

Player == <<"P", "l", "a", "y", "e", "r">>
Coach == <<"C", "o", "a", "c", "h">>
DanIssel == <<"D", "a", "n", " ", "I", "s", "s", "e", "l">>
DanIssell == <<"D", "a", "n", " ", "I", "s", "s", "e", "l", "l">>
DanIsselll == <<"D", "a", "n", " ", "I", "s", "s", "e", "l", "l", "l">>
Star == <<"*">>

\* the empty string
Empty == <<>>

SeqsUpTo(S, n) == UNION {[1..k -> S] : k \in 0..n}

Range(s) == {s[i] : i \in 1..Len(s)}

(***************************************************************************)
(* Series.str.replace(pat, repl) on one string: every non-overlapping      *)
(* occurrence of pat, found left to right, is replaced.  A one-character   *)
(* pattern is taken literally (str.replace); the longer pattern used here  *)
(* has no regular-expression metacharacter, so re.sub does the same.       *)
(***************************************************************************)
IsPrefixAt(s, i, pat) ==
    /\ i + Len(pat) - 1 <= Len(s)
    /\ \A k \in 1..Len(pat) : s[i + k - 1] = pat[k]

RECURSIVE str_replace_from(_, _, _, _)
str_replace_from(s, i, pat, repl) ==
    IF i > Len(s) THEN <<>>
    ELSE IF IsPrefixAt(s, i, pat)
         THEN repl \o str_replace_from(s, i + Len(pat), pat, repl)
         ELSE <<s[i]>> \o str_replace_from(s, i + 1, pat, repl)

\* a missing value stays missing
str_replace(s, pat, repl) ==
    IF s = NaN THEN NaN ELSE str_replace_from(s, 1, pat, repl)

(***************************************************************************)
(* blank_filter: re.sub(r'^\d+,+$', '', text, flags=re.MULTILINE).         *)
(* The scan goes left to right.  At a position where ^ holds (start of     *)
(* the text, or just after a newline) the longest run of digits and then   *)
(* the longest run of commas are taken; $ holds at the end of the text or  *)
(* before a newline.  Backtracking cannot help: with fewer commas the next *)
(* character is a comma, with fewer digits it is a digit.  A match is      *)
(* replaced by nothing and the scan goes on behind it; otherwise the       *)
(* character is copied.                                                    *)
(***************************************************************************)
Digits == {"0", "1", "2", "3", "4", "5", "6", "7", "8", "9"}

RECURSIVE RunEnd(_, _, _)
RunEnd(s, i, set) ==
    IF i <= Len(s) /\ s[i] \in set THEN RunEnd(s, i + 1, set) ELSE i

LineStartAt(s, i) == i = 1 \/ s[i - 1] = NL

LineEndAt(s, i) == i > Len(s) \/ s[i] = NL

RECURSIVE blank_filter_from(_, _)
blank_filter_from(s, i) ==
    IF i > Len(s) THEN <<>>
    ELSE LET d == RunEnd(s, i, Digits)
             c == RunEnd(s, d, {","})
         IN IF LineStartAt(s, i) /\ d > i /\ c > d /\ LineEndAt(s, c)
            THEN blank_filter_from(s, c)
            ELSE <<s[i]>> \o blank_filter_from(s, i + 1)

\* the pattern without its $: ^\d+,+
RECURSIVE blank_filter_unanchored_from(_, _)
blank_filter_unanchored_from(s, i) ==
    IF i > Len(s) THEN <<>>
    ELSE LET d == RunEnd(s, i, Digits)
             c == RunEnd(s, d, {","})
         IN IF LineStartAt(s, i) /\ d > i /\ c > d
            THEN blank_filter_unanchored_from(s, c)
            ELSE <<s[i]>> \o blank_filter_unanchored_from(s, i + 1)

blank_filter_unanchored(s) == blank_filter_unanchored_from(s, 1)

blank_filter(s) == blank_filter_from(s, 1)

(***************************************************************************)
(* The inductee sources.                                                   *)
(***************************************************************************)
\* rows the published CSV (and the scraped page) may hold
FameRows ==
    { [name |-> <<"A">>, category |-> Player],
      [name |-> <<"A">>, category |-> Coach],
      [name |-> DanIssell, category |-> Player],
      [name |-> DanIsselll, category |-> Player] }

\* pd.read_csv of the published CSV, when the fetch succeeds
FameTables == SeqsUpTo(FameRows, MaxFame)

\* the text that follows </b> in a paragraph of the page, for a category
RawDesc(category) ==
    IF category = Coach
    THEN <<",", " ", "<", "i", ">">> \o category \o <<"<", "/", "i", ">">>
    ELSE <<",", " ">> \o category

\* the (name, description) pairs re.findall extracts from the paragraphs
ScrapePairs == {[name |-> r.name, desc |-> RawDesc(r.category)] : r \in FameRows}

\* the first pair on the page is a heading, not an inductee
HeadingPair == [name |-> <<"N", "B", "A">>, desc |-> <<" ", "H", "o", "F">>]

\* what requests.get / BeautifulSoup deliver: the section found or not, and
\* the pairs the pattern matches in its paragraphs
Pages ==
    { [section |-> FALSE, members |-> <<>>],
      [section |-> TRUE, members |-> <<>>] }
    \cup { [section |-> TRUE, members |-> <<HeadingPair>> \o m] :
             m \in SeqsUpTo(ScrapePairs, MaxFame) }

WordChars ==
    Digits \cup {"_"} \cup
    {"a", "b", "c", "d", "e", "f", "g", "h", "i", "j", "k", "l", "m", "n",
     "o", "p", "q", "r", "s", "t", "u", "v", "w", "x", "y", "z",
     "A", "B", "C", "D", "E", "F", "G", "H", "I", "J", "K", "L", "M", "N",
     "O", "P", "Q", "R", "S", "T", "U", "V", "W", "X", "Y", "Z"}

Whitespace == {" ", "\t", "\n", "\r", "\f"}

\* length of the match of </?\w> at position i, 0 when there is none
TagAt(s, i) ==
    IF i + 2 <= Len(s) /\ s[i] = "<" /\ s[i + 1] \in WordChars /\ s[i + 2] = ">"
    THEN 3
    ELSE IF /\ i + 3 <= Len(s) /\ s[i] = "<" /\ s[i + 1] = "/"
            /\ s[i + 2] \in WordChars /\ s[i + 3] = ">"
         THEN 4
         ELSE 0

\* re.sub(r'</?\w>', '', s)
RECURSIVE remove_tags_from(_, _)
remove_tags_from(s, i) ==
    IF i > Len(s) THEN <<>>
    ELSE IF TagAt(s, i) > 0
         THEN remove_tags_from(s, i + TagAt(s, i))
         ELSE <<s[i]>> \o remove_tags_from(s, i + 1)

remove_tags(s) == remove_tags_from(s, 1)

\* re.sub(r'\s', '', s)
remove_spaces(s) == SelectSeq(s, LAMBDA ch : ch \notin Whitespace)

\* re.sub(r',', '', s)
remove_commas(s) == SelectSeq(s, LAMBDA ch : ch # ",")

\* pd.DataFrame(remove_commas, columns=['name', 'category']) of members[1:]
scraped_frame(members) ==
    [i \in 1..(Len(members) - 1) |->
        [name |-> members[i + 1].name,
         category |-> remove_commas(remove_spaces(remove_tags(members[i + 1].desc)))]]

\* the replaced names computed and not assigned back
correct_name_unassigned(df) == df

\* self.fame.name.str.replace('Dan Issell', 'Dan Issel')
correct_name(df) ==
    [i \in 1..Len(df) |->
        [name |-> str_replace(df[i].name, DanIssell, DanIssel),
         category |-> df[i].category]]

(***************************************************************************)
(* The local files and pd.read_csv.                                        *)
(***************************************************************************)
\* the player cell of a line of Players.csv; NaN: a line with every field
\* but the row counter empty
PlayerCells == {<<"A", "*">>, NaN}

PlayersFiles == SeqsUpTo(PlayerCells, MaxRows)

\* lines of Seasons_Stats.csv: "idx,player".  ArtifactLine is a blank-data
\* line: the row counter and separators only
ArtifactLine == <<"1", ",">>

SeasonLines ==
    { ArtifactLine,
      <<"2", ",", "D", "a", "n", "*", " ", "I", "s", "s", "e", "l", "*">>,
      <<"3", ",">> \o Player }

HeaderLine == <<",">> \o Player

RECURSIVE JoinLines(_)
JoinLines(ls) ==
    IF ls = <<>> THEN <<>> ELSE Head(ls) \o <<NL>> \o JoinLines(Tail(ls))

SeasonFiles == {JoinLines(<<HeaderLine>> \o ls) : ls \in SeqsUpTo(SeasonLines, MaxRows)}

RECURSIVE Split(_, _)
Split(s, sep) ==
    IF \E i \in 1..Len(s) : s[i] = sep
    THEN LET i == CHOOSE k \in 1..Len(s) :
                      s[k] = sep /\ \A j \in 1..(k - 1) : s[j] # sep
         IN <<SubSeq(s, 1, i - 1)>> \o Split(SubSeq(s, i + 1, Len(s)), sep)
    ELSE <<s>>

\* an empty field is a missing value
Cell(fields, k) ==
    IF k <= Len(fields) /\ fields[k] # Empty THEN fields[k] ELSE NaN

\* rows numbered by position
Numbered(cells) == [k \in 1..Len(cells) |-> [row |-> k, player |-> cells[k]]]

\* pd.read_csv(io.StringIO(text), header=None, skiprows=1, ...) and
\* .drop([..., 'idx'], axis=1): the first line is skipped, blank lines are
\* skipped, each other line is one row
read_csv_text(s) ==
    LET lines == Split(s, NL)
        data == SelectSeq(Tail(lines), LAMBDA l : l # Empty)
    IN Numbered([k \in 1..Len(data) |-> Cell(Split(data[k], ","), 2)])

\* pd.read_csv(players_file, ...).drop('idx', axis=1).dropna(how='all')
read_csv_players(cells) ==
    SelectSeq(Numbered(cells), LAMBDA r : r.player # NaN)

\* only a trailing marker removed
strip_marker_trailing(df) ==
    [k \in 1..Len(df) |->
        [row |-> df[k].row,
         player |-> IF df[k].player # Empty /\ df[k].player[Len(df[k].player)] = "*"
                    THEN SubSeq(df[k].player, 1, Len(df[k].player) - 1)
                    ELSE df[k].player]]

\* self.<table>.player.str.replace('*', '')
strip_marker(df) ==
    [k \in 1..Len(df) |->
        [row |-> df[k].row, player |-> str_replace(df[k].player, Star, Empty)]]

\* the names of every category
filter_players_any_category(df) == {df[i].name : i \in 1..Len(df)}

\* self.fame.query('category == "Player"').name
filter_players(df) == {df[i].name : i \in {j \in 1..Len(df) : df[j].category = Player}}

\* table[table.player.isin(names)]
select_isin(df, names) == SelectSeq(df, LAMBDA r : r.player \in names)

load_players(file) == strip_marker(read_csv_players(file))

load_stats(s) == strip_marker(read_csv_text(blank_filter(s)))

(***************************************************************************)
(* missing_hall_of_fame.                                                   *)
(***************************************************************************)
\* DataFrame.isin(values): cell by cell, over every column of the frame
frame_isin(df, values) ==
    [i \in 1..Len(df) |->
        [name |-> df[i].name \in values, category |-> df[i].category \in values]]

\* df[~mask] with a boolean frame: DataFrame.where, a cell whose mask is
\* set becomes NaN; every row stays, under its index label
mask_out(df, mask) ==
    [i \in 1..Len(df) |->
        [ix |-> i,
         name |-> IF mask[i].name THEN NaN ELSE df[i].name,
         category |-> IF mask[i].category THEN NaN ELSE df[i].category]]

\* .dropna(): a row with any missing cell goes
dropna(rows) == SelectSeq(rows, LAMBDA r : r.name # NaN /\ r.category # NaN)

\* .query('category == "Player"').name: a Series, index label and value
query_player_name(rows) ==
    LET kept == SelectSeq(rows, LAMBDA r : r.category = Player)
    IN [k \in 1..Len(kept) |-> [ix |-> kept[k].ix, value |-> kept[k].name]]

\* self.fame[~self.fame.isin(values)].dropna().query(...).name
missing_from(df, values) ==
    query_player_name(dropna(mask_out(df, frame_isin(df, values))))

\* self.players_fame.player.tolist()
no_players_of(df, pfame) == missing_from(df, {r.player : r \in Range(pfame)})

\* self.stats.player.unique()
no_stats_of(df, st) == missing_from(df, {r.player : r \in Range(st)})

RECURSIVE SortedSeq(_)
SortedSeq(S) ==
    IF S = {} THEN <<>>
    ELSE LET m == CHOOSE x \in S : \A y \in S : x <= y
         IN <<m>> \o SortedSeq(S \ {m})

Labels(series) == {r.ix : r \in Range(series)}

ValueAt(series, ix) ==
    IF ix \in Labels(series)
    THEN (CHOOSE r \in Range(series) : r.ix = ix).value
    ELSE NaN

\* the two Series side by side by position, the shorter one padded
concat_positional(a, b) ==
    [columns |-> <<"player_dataset", "stats_dataset">>,
     rows |-> [k \in 1..(IF Len(a) >= Len(b) THEN Len(a) ELSE Len(b)) |->
                  <<IF k <= Len(a) THEN a[k].value ELSE NaN,
                    IF k <= Len(b) THEN b[k].value ELSE NaN>>]]

\* pd.concat([a, b], axis=1, join='outer', ignore_index=True): the rows are
\* the union of the two indexes, in order; a Series has a value in the row
\* of its own label and NaN in the others.  .rename(columns=...) names the
\* columns 0 and 1, .reset_index(drop=True) renumbers the rows.
concat_outer(a, b) ==
    LET labels == SortedSeq(Labels(a) \cup Labels(b))
    IN [columns |-> <<"player_dataset", "stats_dataset">>,
        rows |-> [k \in 1..Len(labels) |->
                     <<ValueAt(a, labels[k]), ValueAt(b, labels[k])>>]]

missing_table(df, pfame, st) ==
    concat_outer(no_players_of(df, pfame), no_stats_of(df, st))

NoTable == [columns |-> <<>>, rows |-> <<>>]

(***************************************************************************)
(* Statistics.__init__, step by step.                                      *)
(***************************************************************************)
InitObject(pfiles, sfiles) ==
    /\ pc = "init"
    /\ log = <<>>
    /\ extracted = 0
    /\ resolved = <<>>
    /\ fame = <<>>
    /\ players_file \in pfiles
    /\ season_file \in sfiles
    /\ players = <<>>
    /\ stats = <<>>
    /\ players_fame = <<>>
    /\ stats_fame = <<>>
    /\ returned = FALSE
    /\ result = NoTable
    /\ fstage = "off"
    /\ text = <<>>
    /\ filtered = <<>>
    /\ twice = <<>>

\* pd.read_csv(url, ...) returns the table
read_csv_fame(tables) ==
    /\ pc = "init"
    /\ \E t \in tables :
          /\ fame' = t
          /\ resolved' = t
    /\ pc' = "resolved"
    /\ log' = Append(log, "primary_ok")
    /\ UNCHANGED <<extracted, players_file, season_file, players, stats,
                   players_fame, stats_fame, returned, result>>
    /\ UNCHANGED filtervars

\* the primary fetch tried again after an HTTP error
except_HTTPError_retry ==
    /\ pc = "init"
    /\ pc' = "init"
    /\ log' = Append(log, "primary_HTTPError")
    /\ UNCHANGED <<extracted, resolved, fame, players_file, season_file,
                   players, stats, players_fame, stats_fame, returned, result>>
    /\ UNCHANGED filtervars

\* pd.read_csv(url, ...) raises urllib.error.HTTPError: the handler runs
except_HTTPError ==
    /\ pc = "init"
    /\ pc' = "fallback"
    /\ log' = Append(log, "primary_HTTPError")
    /\ UNCHANGED <<extracted, resolved, fame, players_file, season_file,
                   players, stats, players_fame, stats_fame, returned, result>>
    /\ UNCHANGED filtervars

\* pd.read_csv(url, ...) raises another error (urllib.error.URLError: the
\* host is unreachable): no handler, __init__ ends with it
raise_URLError ==
    /\ pc = "init"
    /\ pc' = "failed"
    /\ log' = Append(log, "primary_URLError")
    /\ UNCHANGED <<extracted, resolved, fame, players_file, season_file,
                   players, stats, players_fame, stats_fame, returned, result>>
    /\ UNCHANGED filtervars

\* self.scrape_hall_of_fame(): section.find_all raises AttributeError when
\* soup.find returned None
scrape_hall_of_fame(pages) ==
    /\ pc = "fallback"
    /\ \E page \in pages :
          IF page.section
          THEN /\ extracted' = Len(page.members)
               /\ fame' = scraped_frame(page.members)
               /\ resolved' = scraped_frame(page.members)
               /\ pc' = "resolved"
               /\ log' = Append(log, "fallback_ok")
          ELSE /\ pc' = "failed"
               /\ log' = Append(log, "fallback_AttributeError")
               /\ UNCHANGED <<extracted, fame, resolved>>
    /\ UNCHANGED <<players_file, season_file, players, stats, players_fame,
                   stats_fame, returned, result>>
    /\ UNCHANGED filtervars

\* self.fame.name = self.fame.name.str.replace('Dan Issell', 'Dan Issel')
replace_name ==
    /\ pc = "resolved"
    /\ fame' = correct_name(fame)
    /\ pc' = "corrected"
    /\ log' = Append(log, "correct")
    /\ UNCHANGED <<extracted, resolved, players_file, season_file, players,
                   stats, players_fame, stats_fame, returned, result>>
    /\ UNCHANGED filtervars

\* the rows read added to the rows already held
load_data_appending ==
    /\ pc \in {"corrected", "ready"}
    /\ players' = players \o load_players(players_file)
    /\ stats' = stats \o load_stats(season_file)
    /\ players_fame' = select_isin(players \o load_players(players_file),
                                   filter_players(fame))
    /\ stats_fame' = select_isin(stats \o load_stats(season_file),
                                 filter_players(fame))
    /\ pc' = "ready"
    /\ log' = IF pc = "corrected" THEN Append(log, "load_data") ELSE log
    /\ UNCHANGED <<extracted, resolved, fame, players_file, season_file,
                   returned, result>>
    /\ UNCHANGED filtervars

\* self.load_data(): the last step of __init__, and any later call
load_data ==
    /\ pc \in {"corrected", "ready"}
    /\ players' = load_players(players_file)
    /\ stats' = load_stats(season_file)
    /\ players_fame' = select_isin(load_players(players_file), filter_players(fame))
    /\ stats_fame' = select_isin(load_stats(season_file), filter_players(fame))
    /\ pc' = "ready"
    /\ log' = IF pc = "corrected" THEN Append(log, "load_data") ELSE log
    /\ UNCHANGED <<extracted, resolved, fame, players_file, season_file,
                   returned, result>>
    /\ UNCHANGED filtervars

missing_hall_of_fame ==
    /\ pc = "ready"
    /\ result' = missing_table(fame, players_fame, stats)
    /\ returned' = TRUE
    /\ UNCHANGED <<pc, log, extracted, resolved, fame, players_file,
                   season_file, players, stats, players_fame, stats_fame>>
    /\ UNCHANGED filtervars

Init == InitObject(PlayersFiles, SeasonFiles)

Next ==
    \/ read_csv_fame(FameTables)
    \/ except_HTTPError
    \/ raise_URLError
    \/ scrape_hall_of_fame(Pages)
    \/ replace_name
    \/ load_data
    \/ missing_hall_of_fame

Spec == Init /\ [][Next]_vars

(***************************************************************************)
(* The object in use, with the local files edited between calls.           *)
(***************************************************************************)
DanLine == <<"2", ",", "D", "a", "n", "*", " ", "I", "s", "s", "e", "l", "*">>

ReloadPlayersFiles == {<<>>, <<<<"A", "*">>>>, <<NaN, <<"A", "*">>>>}

ReloadSeasonFiles ==
    { JoinLines(<<HeaderLine>>),
      JoinLines(<<HeaderLine, ArtifactLine, DanLine>>),
      JoinLines(<<HeaderLine, <<"3", ",">> \o Player>>) }

ReloadFameTables ==
    { <<>>,
      <<[name |-> <<"A">>, category |-> Coach]>>,
      <<[name |-> <<"A">>, category |-> Player],
        [name |-> DanIssell, category |-> Player]>> }

ReloadPages ==
    { [section |-> FALSE, members |-> <<>>],
      [section |-> TRUE,
       members |-> <<HeadingPair, [name |-> DanIssell, desc |-> RawDesc(Player)]>>] }

\* the files on disk are replaced while the object is in use
change_files(pfiles, sfiles) ==
    /\ pc = "ready"
    /\ players_file' \in pfiles
    /\ season_file' \in sfiles
    /\ <<players_file', season_file'>> # <<players_file, season_file>>
    /\ UNCHANGED <<pc, log, extracted, resolved, fame, players, stats,
                   players_fame, stats_fame, returned, result>>
    /\ UNCHANGED filtervars

InitReload == InitObject(ReloadPlayersFiles, ReloadSeasonFiles)

NextReload ==
    \/ read_csv_fame(ReloadFameTables)
    \/ except_HTTPError
    \/ raise_URLError
    \/ scrape_hall_of_fame(ReloadPages)
    \/ replace_name
    \/ load_data
    \/ missing_hall_of_fame
    \/ change_files(ReloadPlayersFiles, ReloadSeasonFiles)

SpecReload == InitReload /\ [][NextReload]_vars

(***************************************************************************)
(* blank_filter on its own: every text up to MaxLen over an alphabet with  *)
(* a digit, the comma, the newline and a letter, and the text of the       *)
(* documented scenario.                                                    *)
(***************************************************************************)
FilterAlphabet == {"1", ",", NL, "J"}

ScenarioText ==
    <<"1", ",", ",", ",", NL,
      "J", "o", "h", "n", ",", "2", "5", ",", "6", ".", "5", NL,
      "2", ",", ",", NL>>

FilterTexts == SeqsUpTo(FilterAlphabet, MaxLen) \cup {ScenarioText}

InitFilter ==
    /\ pc = "off"
    /\ log = <<>>
    /\ extracted = 0
    /\ resolved = <<>>
    /\ fame = <<>>
    /\ players_file = <<>>
    /\ season_file = <<>>
    /\ players = <<>>
    /\ stats = <<>>
    /\ players_fame = <<>>
    /\ stats_fame = <<>>
    /\ returned = FALSE
    /\ result = NoTable
    /\ fstage = "input"
    /\ text \in FilterTexts
    /\ filtered = <<>>
    /\ twice = <<>>

\* filtered_text = blank_filter(season_text)
apply_blank_filter ==
    /\ fstage = "input"
    /\ filtered' = blank_filter(text)
    /\ fstage' = "filtered"
    /\ UNCHANGED <<text, twice>>
    /\ UNCHANGED objvars

\* the sanitizer run on its own output
apply_blank_filter_again ==
    /\ fstage = "filtered"
    /\ twice' = blank_filter(filtered)
    /\ fstage' = "twice"
    /\ UNCHANGED <<text, filtered>>
    /\ UNCHANGED objvars

NextFilter == apply_blank_filter \/ apply_blank_filter_again

SpecFilter == InitFilter /\ [][NextFilter]_vars

(***************************************************************************)
(* Vocabulary of the properties.                                           *)
(***************************************************************************)
Contains(s, pat) == \E i \in 1..Len(s) : IsPrefixAt(s, i, pat)

HasMarker(s) == "*" \in Range(s)

WithoutMarker(s) == SelectSeq(s, LAMBDA ch : ch # "*")

\* names of the inductees of category "Player"
PlayerInductees ==
    {fame[i].name : i \in {j \in 1..Len(fame) : fame[j].category = Player}}

NamesOf(df) == {r.player : r \in Range(df)}

\* a line of digits followed by commas and nothing else
IsArtifact(l) ==
    \E k \in 1..(Len(l) - 1) :
        /\ \A j \in 1..k : l[j] \in Digits
        /\ \A j \in (k + 1)..Len(l) : l[j] = ","

\* rows of a, in the order of b, all rows of b
IsSubTable(a, b) ==
    /\ Range(a) \subseteq Range(b)
    /\ \A i, j \in 1..Len(a) : i < j => a[i].row < a[j].row

ColumnSeq(k) == [i \in 1..Len(result.rows) |-> result.rows[i][k]]

ColumnNames(k) == Range(ColumnSeq(k)) \ {NaN}

Values(series) == [k \in 1..Len(series) |-> series[k].value]

NoPlayers == no_players_of(fame, players_fame)

NoStats == no_stats_of(fame, stats)

Longer(m, n) == IF m >= n THEN m ELSE n

Padded(column, names) ==
    /\ Len(column) >= Len(names)
    /\ \A i \in 1..Len(column) :
          column[i] = IF i <= Len(names) THEN names[i] ELSE NaN

FallbackRan == Len(log) >= 2

Constructed == pc = "ready"

(***************************************************************************)
(* C1.                                                                     *)
(***************************************************************************)
\* C1: once missing_hall_of_fame has returned, a name is in a column of the
\* result if and only if it is the name of an inductee of category "Player"
\* and no row of that column's table (players, stats) has it.
C1_MissingIffAbsent ==
    returned =>
        \A n \in PlayerInductees \cup ColumnNames(1) \cup ColumnNames(2) :
            /\ n \in ColumnNames(1) <=>
                   (n \in PlayerInductees /\ n \notin NamesOf(players))
            /\ n \in ColumnNames(2) <=>
                   (n \in PlayerInductees /\ n \notin NamesOf(stats))

(***************************************************************************)
(* C2.                                                                     *)
(***************************************************************************)
\* C2: in a constructed object, after every load_data, players_fame and
\* stats_fame are sub-tables of players and stats, and a row is in the
\* filtered view exactly when its player name is the corrected name of an
\* inductee of category "Player".
C2_FilterToFame ==
    Constructed =>
        /\ IsSubTable(players_fame, players)
        /\ IsSubTable(stats_fame, stats)
        /\ \A r \in Range(players) :
              r \in Range(players_fame) <=> r.player \in PlayerInductees
        /\ \A r \in Range(stats) :
              r \in Range(stats_fame) <=> r.player \in PlayerInductees

\* a row of players matches a Coach only and is left out, while stats is
\* filtered to a proper, non-empty part
C2_Witness ==
    /\ Constructed
    /\ \E r \in Range(players) \ Range(players_fame) :
          \E i \in 1..Len(fame) :
              fame[i].name = r.player /\ fame[i].category = Coach
    /\ stats_fame # <<>>
    /\ Len(stats_fame) < Len(stats)

(***************************************************************************)
(* C3.                                                                     *)
(***************************************************************************)
\* C3: whenever the primary fetch fails, whatever the failure, the fallback
\* scrape is run: construction never ends in failure with the primary
\* fetch as its only step.
C3_PrimaryFailureFallsBack ==
    (Len(log) >= 1 /\ log[1] # "primary_ok" /\ pc = "failed") => FallbackRan

(***************************************************************************)
(* C4.                                                                     *)
(***************************************************************************)
\* C4: when the fallback scrape extracts zero pairs, construction aborts:
\* load_data is never run and no object becomes observable.
C4_EmptyScrapeAborts ==
    (FallbackRan /\ log[2] = "fallback_ok" /\ extracted = 0) =>
        /\ ~Constructed
        /\ "load_data" \notin Range(log)

(***************************************************************************)
(* C5.                                                                     *)
(***************************************************************************)
ScenarioResult ==
    <<NL, "J", "o", "h", "n", ",", "2", "5", ",", "6", ".", "5", NL, NL>>

\* C5: blank_filter keeps the number and order of the lines, empties every
\* line that is digits followed by commas and nothing else, returns every
\* other line unchanged, maps the documented scenario to its documented
\* result, and applied a second time changes nothing.
C5_BlankFilter ==
    /\ fstage \in {"filtered", "twice"} =>
          /\ Split(filtered, NL) =
                 [i \in 1..Len(Split(text, NL)) |->
                     IF IsArtifact(Split(text, NL)[i])
                     THEN Empty
                     ELSE Split(text, NL)[i]]
          /\ text = ScenarioText => filtered = ScenarioResult
    /\ fstage = "twice" => twice = filtered

\* the documented scenario, filtered twice
C5_Witness ==
    /\ fstage = "twice"
    /\ text = ScenarioText
    /\ filtered # text

(***************************************************************************)
(* C6.                                                                     *)
(***************************************************************************)
\* the raw player fields of the data lines of Seasons_Stats.csv
RawSeasonNames ==
    {Split(l, ",")[2] :
        l \in {m \in Range(Tail(Split(season_file, NL))) :
                 m # Empty /\ ~IsArtifact(m) /\ Len(Split(m, ",")) >= 2}}

RawPlayerNames == Range(players_file) \ {NaN}

\* C6: after load_data no player name of players, stats, players_fame or
\* stats_fame holds a "*", and a raw row is matched against the inductees
\* by its name without the markers.
C6_NoMarker ==
    Constructed =>
        /\ \A r \in Range(players) \cup Range(stats)
                      \cup Range(players_fame) \cup Range(stats_fame) :
              ~HasMarker(r.player)
        /\ \A raw \in RawPlayerNames :
              WithoutMarker(raw) \in PlayerInductees
                  => WithoutMarker(raw) \in NamesOf(players_fame)
        /\ \A raw \in RawSeasonNames :
              WithoutMarker(raw) \in PlayerInductees
                  => WithoutMarker(raw) \in NamesOf(stats_fame)

\* raw names with a trailing and with an inner marker, both joined
C6_Witness ==
    /\ Constructed
    /\ \E raw \in RawPlayerNames :
          HasMarker(raw) /\ WithoutMarker(raw) \in NamesOf(players_fame)
    /\ \E raw \in RawSeasonNames :
          /\ HasMarker(raw)
          /\ raw[Len(raw)] = "*"
          /\ HasMarker(SubSeq(raw, 1, Len(raw) - 1))
          /\ WithoutMarker(raw) \in NamesOf(stats_fame)

(***************************************************************************)
(* C7.                                                                     *)
(***************************************************************************)
Corrected == pc \in {"corrected", "ready"}

ReturnedNames == IF returned THEN ColumnNames(1) \cup ColumnNames(2) ELSE {}

\* C7 as stated: after the correction no inductee name is or contains
\* "Dan Issell", a second correction changes nothing, and no name of the
\* filter set or of the result of missing_hall_of_fame contains it.
C7_NoDefectiveSpelling ==
    Corrected =>
        /\ \A i \in 1..Len(fame) : ~Contains(fame[i].name, DanIssell)
        /\ correct_name(fame) = fame
        /\ \A n \in PlayerInductees \cup ReturnedNames : ~Contains(n, DanIssell)

\* C7 amended: the correction keeps the rows and the categories, stores
\* "Dan Issell" as "Dan Issel" and leaves a name without the defective
\* spelling as it is; a stored name contains "Dan Issell" only when the
\* resolved name contained "Dan Isselll", and for a table with no such
\* name a second correction changes nothing and no name of the filter set
\* or of the result of missing_hall_of_fame contains "Dan Issell".
C7_DefectReplacedOnce ==
    Corrected =>
        /\ Len(fame) = Len(resolved)
        /\ \A i \in 1..Len(fame) :
              /\ fame[i].category = resolved[i].category
              /\ resolved[i].name = DanIssell => fame[i].name = DanIssel
              /\ ~Contains(resolved[i].name, DanIssell)
                     => fame[i].name = resolved[i].name
              /\ ~Contains(resolved[i].name, DanIsselll)
                     => ~Contains(fame[i].name, DanIssell)
        /\ (\A i \in 1..Len(resolved) : ~Contains(resolved[i].name, DanIsselll))
              => /\ correct_name(fame) = fame
                 /\ \A n \in PlayerInductees \cup ReturnedNames :
                       ~Contains(n, DanIssell)

\* a scraped "Dan Issell", stored as "Dan Issel" and reported missing
C7_Witness ==
    /\ Constructed
    /\ returned
    /\ FallbackRan
    /\ \E i \in 1..Len(fame) :
          /\ resolved[i].name = DanIssell
          /\ fame[i].name = DanIssel
          /\ DanIssel \in ColumnNames(1)

(***************************************************************************)
(* C8.                                                                     *)
(***************************************************************************)
\* C8 as stated: the result has the columns player_dataset and
\* stats_dataset in that order, as many rows as the longer of the two
\* missing-name sequences, and each column is its sequence followed by
\* missing entries only.
C8_ColumnsPadded ==
    returned =>
        /\ result.columns = <<"player_dataset", "stats_dataset">>
        /\ Len(result.rows) = Longer(Len(NoPlayers), Len(NoStats))
        /\ Padded(ColumnSeq(1), Values(NoPlayers))
        /\ Padded(ColumnSeq(2), Values(NoStats))

\* C8 amended: the result has the columns player_dataset and stats_dataset
\* in that order and one row for every row of the inductee table that is
\* in at least one of the two missing-name sequences, in the order of the
\* inductee table; in that row a column holds the inductee's name when
\* the inductee is in the column's sequence and a missing entry when not.
\* So each column without its missing entries is its sequence, and the
\* number of rows lies between the length of the longer sequence and the
\* sum of both lengths.
C8_ColumnsAligned ==
    returned =>
        LET both == Labels(NoPlayers) \cup Labels(NoStats)
            labels == SortedSeq(both)
        IN /\ result.columns = <<"player_dataset", "stats_dataset">>
           /\ Len(result.rows) = Cardinality(both)
           /\ \A k \in 1..Len(result.rows) :
                 /\ result.rows[k][1] =
                        IF labels[k] \in Labels(NoPlayers)
                        THEN fame[labels[k]].name ELSE NaN
                 /\ result.rows[k][2] =
                        IF labels[k] \in Labels(NoStats)
                        THEN fame[labels[k]].name ELSE NaN
           /\ SelectSeq(ColumnSeq(1), LAMBDA v : v # NaN) = Values(NoPlayers)
           /\ SelectSeq(ColumnSeq(2), LAMBDA v : v # NaN) = Values(NoStats)
           /\ Len(result.rows) >= Longer(Len(NoPlayers), Len(NoStats))
           /\ Len(result.rows) <= Len(NoPlayers) + Len(NoStats)

\* more rows than the longer sequence, and a missing entry above a name
C8_Witness ==
    /\ returned
    /\ Len(result.rows) > Longer(Len(NoPlayers), Len(NoStats))
    /\ \E k \in {1, 2} :
          \E i, j \in 1..Len(result.rows) :
              i < j /\ ColumnSeq(k)[i] = NaN /\ ColumnSeq(k)[j] # NaN

(***************************************************************************)
(* C9.                                                                     *)
(***************************************************************************)
IsPrefix(a, b) == Len(a) <= Len(b) /\ a = SubSeq(b, 1, Len(a))

PrimaryPath == <<"primary_ok", "correct", "load_data">>

FallbackPath == <<"primary_HTTPError", "fallback_ok", "correct", "load_data">>

\* C9: the steps of a construction are one-shot and in order: the primary
\* fetch once and first, the fallback at most once and only after a failed
\* primary fetch, the name correction after the table is resolved and
\* load_data after the correction; before a step has run its effect is
\* absent.
C9_ResolutionOrder ==
    /\ \/ IsPrefix(log, PrimaryPath)
       \/ IsPrefix(log, FallbackPath)
       \/ log = <<"primary_URLError">>
       \/ log = <<"primary_HTTPError", "fallback_AttributeError">>
    /\ Constructed => log \in {PrimaryPath, FallbackPath}
    /\ pc \in {"init", "fallback"} => fame = <<>>
    /\ "correct" \notin Range(log) => fame = resolved
    /\ "correct" \in Range(log) => fame = correct_name(resolved)
    /\ "load_data" \notin Range(log) =>
          players = <<>> /\ stats = <<>> /\ players_fame = <<>> /\ stats_fame = <<>>

\* a construction through the fallback, with tables loaded
C9_Witness ==
    /\ Constructed
    /\ log = FallbackPath
    /\ fame # <<>>
    /\ players # <<>>

(***************************************************************************)
(* C10.                                                                    *)
(***************************************************************************)
\* the four tables are what load_data computes from the files on disk
InSync ==
    /\ players = load_players(players_file)
    /\ stats = load_stats(season_file)
    /\ players_fame = select_isin(load_players(players_file), filter_players(fame))
    /\ stats_fame = select_isin(load_stats(season_file), filter_players(fame))

\* the same of the state a step leads to
InSyncAfter ==
    /\ players' = load_players(players_file')
    /\ stats' = load_stats(season_file')
    /\ players_fame' = select_isin(load_players(players_file'), filter_players(fame'))
    /\ stats_fame' = select_isin(load_stats(season_file'), filter_players(fame'))

TablesKept == UNCHANGED <<players, stats, players_fame, stats_fame>>

FilesKept == UNCHANGED <<players_file, season_file>>

RerunStep ==
    /\ (pc = "corrected" /\ pc' = "ready") => InSyncAfter
    /\ Constructed =>
          /\ fame' = fame
          /\ (FilesKept /\ InSync) => TablesKept
          /\ (result' # result \/ returned' # returned) =>
                /\ TablesKept
                /\ result' = missing_table(fame, players_fame, stats)
          /\ (returned /\ TablesKept
                /\ result = missing_table(fame, players_fame, stats))
                => result' = result
          /\ ~TablesKept => InSyncAfter

\* C10: on a constructed object no call modifies fame; with the files
\* unchanged load_data leaves players, stats, players_fame and stats_fame
\* as construction left them; missing_hall_of_fame modifies none of the
\* tables and returns the same result while they are the same; after a
\* change of the files load_data recomputes the tables from the new files
\* against the same inductee table.
C10_RerunIdempotent == [][RerunStep]_vars

\* a result returned before the files changed and the tables were reloaded
C10_Witness ==
    /\ Constructed
    /\ returned
    /\ InSync
    /\ players # <<>>
    /\ result # missing_table(fame, players_fame, stats)

====
